---- MODULE Spec2Model ----
(***************************************************************************)
(* Upload pipeline of the BigQuery demo app: the DatasetManager component  *)
(* (createTable, checkTableExists, detectSchema), the /api/tables/create   *)
(* and /api/data/insert handlers, and the pure inference / conversion      *)
(* functions (sanitizeFieldName, parseCSVLine, inferColumnType,            *)
(* convertValue, parseCSV, detectCSVSchema).                               *)
(*                                                                         *)
(* Spec      the load: one DatasetManager, the two handlers, the warehouse *)
(* SpecSan   sanitizeFieldName applied to bounded strings                  *)
(* SpecType  inferColumnType / convertValue applied to bounded columns     *)
(* SpecCsv   parseCSV / detectCSVSchema applied to bounded documents       *)
(***************************************************************************)
EXTENDS Integers, Sequences, FiniteSets, TLC

(***************************************************************************)
(* Bounds of the model and program constants.                              *)
(***************************************************************************)
\* the largest document of the load holds MaxBatches full batches and a rest
MaxBatches == 2
\* checkTableExists calls whose response is still pending
MaxPending == 1
\* what the operator does in one behaviour: files dropped, names edited,
\* modes selected, buttons pressed
MaxOps == 3
\* the longest field name sanitizeFieldName is applied to
MaxName == 4
\* the longest column inferColumnType and convertValue are applied to
MaxColumn == 4
\* the most lines (header included) a generated CSV document holds
MaxLines == 4
\* the longest generated line parseCSVLine is applied to
MaxLine == 5
\* the most elements a generated JSON array holds
MaxElems == 3
\* insert/+server.ts:61  const batchSize = 1000
batchSize == 1000

Min(a, b) == IF a <= b THEN a ELSE b

(***************************************************************************)
(* The load.  A document is held here by what the two server-side parsers  *)
(* make of it: whether /api/schema/detect returns a schema for it, and     *)
(* whether parseCSV / parseJSON throws or returns n rows.  The handler     *)
(* reads its rows only through rows.length and rows.slice, so a batch is   *)
(* the index range it was cut from.                                        *)
(***************************************************************************)
RowCounts == {k * batchSize + r : k \in 0..MaxBatches, r \in {0, 1, batchSize - 1}}

Content(n) == [text |-> "rows", detect |-> TRUE, parse |-> "rows", n |-> n]

\* text "": an empty file; "short": a CSV of fewer than two lines (both
\* parsers throw); "scalars": a JSON array of objects and a scalar (inference
\* skips the scalar, conversion throws); "rows": a document of n rows.
BadContents ==
    {[text |-> "", detect |-> FALSE, parse |-> "throws", n |-> 0],
     [text |-> "short", detect |-> FALSE, parse |-> "throws", n |-> 0],
     [text |-> "scalars", detect |-> TRUE, parse |-> "throws", n |-> 0]}

\* the documents a request to /api/data/insert may carry
Contents == BadContents \cup {Content(n) : n \in RowCounts}

\* the files the operator uploads in the component's specification
Files == {c \in BadContents : c.text # ""} \cup {Content(0), Content(batchSize + 1)}

SchemaOf(c) == <<"id", "name">>
\* the keys parseCSV / parseJSON give the rows of the document: its raw
\* names through the chain of sanitizeFieldName
RowKeys(c) == SchemaOf(c)

\* what the operator types into the name of a field of the preview
EditedNames == {"renamed"}

TableNames == {"", "t1", "t2"}
DatasetNames == {"", "ds"}
Modes == {"create", "append", "replace"}

VARIABLES
    \* DatasetManager.svelte
    uploadedFile, detectedSchema, tableName, datasetName, showSchemaPreview,
    schemaError, createTableError, tableExistsWarning, insertMode, isProcessing,
    cpc,          \* where createTable stands: idle, awaitCreate, awaitInsert
    dpc,          \* detectSchema: <<>> when idle, else the content it posted
    checks,       \* checkTableExists calls awaiting their response
    dispatched,   \* the last tableCreated event sent to the parent, if any
    \* requests and responses in flight
    createReq, createResp, insertReq, insertResp,
    \* /api/data/insert handler
    hpc, hreq, rows, i, totalInserted,
    \* the warehouse
    datasetExists, tables,
    \* history: the requests, warehouse calls and answers of the current load,
    \* in the order they were made; how the last createTable ended; what the
    \* operator did so far
    calls, outcome, ops,
    \* the pure functions: the input drawn and the results computed
    input, output

clientVars == <<uploadedFile, detectedSchema, tableName, datasetName, showSchemaPreview,
                schemaError, createTableError, tableExistsWarning, insertMode,
                isProcessing, cpc, dpc, checks, dispatched>>
netVars == <<createReq, createResp, insertReq, insertResp>>
handlerVars == <<hpc, hreq, rows, i, totalInserted>>
storeVars == <<datasetExists, tables>>
histVars == <<calls, outcome, ops>>
pureVars == <<input, output>>
loadVars == <<clientVars, netVars, handlerVars, storeVars, histVars>>
vars == <<loadVars, pureVars>>

NoFile == [text |-> "none", detect |-> FALSE, parse |-> "throws", n |-> 0]
NoReq == [datasetId |-> "", tableId |-> "", content |-> NoFile, mode |-> "append"]

\* what a history entry holds besides the call: for a request of createTable,
\* the component's inputs when it was sent; for a conversion, the keys of
\* the rows
NoInputs == [datasetId |-> "", content |-> NoFile, mode |-> "", names |-> <<>>]

Call(op, tbl, start, len, ok) ==
    [op |-> op, tbl |-> tbl, start |-> start, len |-> len, ok |-> ok, inputs |-> NoInputs]

\* history entries: a request sent by createTable, a handler's answer
Sent(route, tbl) ==
    [Call("POST " \o route, tbl, 0, 0, TRUE) EXCEPT
        !.inputs = [datasetId |-> datasetName, content |-> uploadedFile,
                    mode |-> insertMode, names |-> detectedSchema]]
Answered(route, tbl, status) == Call("answer " \o route, tbl, status, 0, status = 200)

LoadInit ==
    /\ uploadedFile = NoFile
    /\ detectedSchema = <<>>
    /\ tableName = ""
    /\ datasetName = "ds"
    /\ showSchemaPreview = FALSE
    /\ schemaError = ""
    /\ createTableError = ""
    /\ tableExistsWarning = FALSE
    /\ insertMode = "create"
    /\ isProcessing = FALSE
    /\ cpc = "idle"
    /\ dpc = <<>>
    /\ checks = <<>>
    /\ dispatched = <<>>
    /\ createReq = <<>>
    /\ createResp = <<>>
    /\ insertResp = <<>>
    /\ datasetExists \in BOOLEAN
    /\ tables \in SUBSET {"t1"}
    /\ (tables # {} => datasetExists)
    /\ hpc = "idle"
    /\ hreq = NoReq
    /\ rows = 0
    /\ i = 0
    /\ totalInserted = 0
    /\ calls = <<>>
    /\ outcome = "none"
    /\ ops = 0

\* the component and the handlers at rest, before an empty warehouse
LoadIdle ==
    /\ LoadInit
    /\ insertReq = <<>>
    /\ ~datasetExists
    /\ tables = {}

PureIdle ==
    /\ input = <<>>
    /\ output = <<>>

(***************************************************************************)
(* DatasetManager.svelte                                                   *)
(***************************************************************************)
\* the {#if showSchemaPreview && detectedSchema.length > 0} block is shown
PreviewShown == showSchemaPreview /\ Len(detectedSchema) > 0

\* one more thing the operator does
Operator ==
    /\ ops < MaxOps
    /\ ops' = ops + 1

\* $: if (tableName.trim() && datasetName.trim() && showSchemaPreview)
\*        checkTableExists();
\* run after an assignment changed one of the three; checkTableExists posts
\* the names it reads when it is called.
Reactive(tn, dn, ssp) ==
    IF <<tn, dn, ssp>> # <<tableName, datasetName, showSchemaPreview>>
       /\ tn # "" /\ dn # "" /\ ssp
    THEN <<[datasetId |-> dn, tableId |-> tn]>>
    ELSE <<>>

Triggers(tn, dn, ssp) ==
    /\ Len(checks) + Len(Reactive(tn, dn, ssp)) <= MaxPending
    /\ checks' = checks \o Reactive(tn, dn, ssp)

\* handleFileProcessed up to the await of detectSchema's fetch
HandleFileProcessed ==
    \E f \in Files, name \in TableNames :
        /\ dpc = <<>>
        /\ Operator
        /\ uploadedFile' = f
        /\ tableName' = name
        /\ schemaError' = ""
        /\ isProcessing' = TRUE
        /\ dpc' = <<f>>
        /\ Triggers(name, datasetName, showSchemaPreview)
        /\ UNCHANGED <<detectedSchema, datasetName, showSchemaPreview, createTableError,
                       tableExistsWarning, insertMode, cpc, dispatched>>
        /\ UNCHANGED <<netVars, handlerVars, storeVars, calls, outcome, pureVars>>

\* /api/schema/detect answers and detectSchema resumes
DetectSchemaResponse ==
    \E netfail \in BOOLEAN :
        /\ dpc # <<>>
        /\ dpc' = <<>>
        /\ isProcessing' = FALSE
        /\ IF netfail \/ ~Head(dpc).detect
           THEN /\ schemaError' = "error"
                /\ UNCHANGED <<detectedSchema, showSchemaPreview, checks>>
           ELSE /\ detectedSchema' = SchemaOf(Head(dpc))
                /\ showSchemaPreview' = TRUE
                /\ Triggers(tableName, datasetName, TRUE)
                /\ UNCHANGED schemaError
        /\ UNCHANGED <<uploadedFile, tableName, datasetName, createTableError,
                       tableExistsWarning, insertMode, cpc, dispatched>>
        /\ UNCHANGED <<netVars, handlerVars, storeVars, histVars, pureVars>>

\* bind:value={tableName}
EditTableName ==
    \E v \in TableNames :
        /\ PreviewShown
        /\ Operator
        /\ v # tableName
        /\ tableName' = v
        /\ Triggers(v, datasetName, showSchemaPreview)
        /\ UNCHANGED <<uploadedFile, detectedSchema, datasetName, showSchemaPreview,
                       schemaError, createTableError, tableExistsWarning, insertMode,
                       isProcessing, cpc, dpc, dispatched>>
        /\ UNCHANGED <<netVars, handlerVars, storeVars, calls, outcome, pureVars>>

\* bind:value={datasetName}
EditDatasetName ==
    \E v \in DatasetNames :
        /\ PreviewShown
        /\ Operator
        /\ v # datasetName
        /\ datasetName' = v
        /\ Triggers(tableName, v, showSchemaPreview)
        /\ UNCHANGED <<uploadedFile, detectedSchema, tableName, showSchemaPreview,
                       schemaError, createTableError, tableExistsWarning, insertMode,
                       isProcessing, cpc, dpc, dispatched>>
        /\ UNCHANGED <<netVars, handlerVars, storeVars, calls, outcome, pureVars>>

\* bind:group={insertMode}: the two radio buttons under the warning
SelectMode ==
    \E m \in {"append", "replace"} :
        /\ PreviewShown
        /\ Operator
        /\ tableExistsWarning
        /\ m # insertMode
        /\ insertMode' = m
        /\ UNCHANGED <<uploadedFile, detectedSchema, tableName, datasetName,
                       showSchemaPreview, schemaError, createTableError,
                       tableExistsWarning, isProcessing, cpc, dpc, checks, dispatched>>
        /\ UNCHANGED <<netVars, handlerVars, storeVars, calls, outcome, pureVars>>

\* updateSchemaField(index, 'name', value)
UpdateSchemaField ==
    \E index \in DOMAIN detectedSchema, value \in EditedNames :
        /\ PreviewShown
        /\ Operator
        /\ detectedSchema[index] # value
        /\ detectedSchema' = [detectedSchema EXCEPT ![index] = value]
        /\ UNCHANGED <<uploadedFile, tableName, datasetName, showSchemaPreview,
                       schemaError, createTableError, tableExistsWarning, insertMode,
                       isProcessing, cpc, dpc, checks, dispatched>>
        /\ UNCHANGED <<netVars, handlerVars, storeVars, calls, outcome, pureVars>>

\* addSchemaField
AddSchemaField ==
    /\ PreviewShown
    /\ Operator
    /\ detectedSchema' = Append(detectedSchema, "new_field")
    /\ UNCHANGED <<uploadedFile, tableName, datasetName, showSchemaPreview,
                   schemaError, createTableError, tableExistsWarning, insertMode,
                   isProcessing, cpc, dpc, checks, dispatched>>
    /\ UNCHANGED <<netVars, handlerVars, storeVars, calls, outcome, pureVars>>

\* removeSchemaField(index)
RemoveSchemaField ==
    \E index \in DOMAIN detectedSchema :
        /\ PreviewShown
        /\ Operator
        /\ detectedSchema' = [k \in 1..(Len(detectedSchema) - 1) |->
                                 IF k < index THEN detectedSchema[k]
                                 ELSE detectedSchema[k + 1]]
        /\ UNCHANGED <<uploadedFile, tableName, datasetName, showSchemaPreview,
                       schemaError, createTableError, tableExistsWarning, insertMode,
                       isProcessing, cpc, dpc, checks, dispatched>>
        /\ UNCHANGED <<netVars, handlerVars, storeVars, calls, outcome, pureVars>>

\* /api/tables/check answers a pending checkTableExists call (responses may
\* arrive in any order); an error answer or a failed fetch ends in the else
\* or the catch branch, which both select create.
CheckTableExistsResponse ==
    \E k \in 1..Len(checks), fails \in BOOLEAN :
        LET req == checks[k]
            exists == ~fails /\ datasetExists /\ req.tableId \in tables
        IN  /\ checks' = [j \in 1..(Len(checks) - 1) |->
                             IF j < k THEN checks[j] ELSE checks[j + 1]]
            /\ tableExistsWarning' = exists
            /\ insertMode' = IF exists THEN "append" ELSE "create"
            /\ UNCHANGED <<uploadedFile, detectedSchema, tableName, datasetName,
                           showSchemaPreview, schemaError, createTableError,
                           isProcessing, cpc, dpc, dispatched>>
            /\ UNCHANGED <<netVars, handlerVars, storeVars, histVars, pureVars>>

\* createTable's body of the /api/data/insert request, read when it is sent
InsertBody ==
    [datasetId |-> datasetName, tableId |-> tableName,
     content |-> uploadedFile, mode |-> insertMode]

\* createTable up to its first await
CreateTableStart ==
    /\ PreviewShown
    /\ Operator
    /\ ~isProcessing
    /\ cpc = "idle"
    /\ uploadedFile # NoFile
    /\ tableName # ""
    /\ calls' = <<Sent(IF insertMode = "create" THEN "create" ELSE "insert", tableName)>>
    /\ outcome' = "running"
    /\ createTableError' = ""
    /\ tableExistsWarning' = FALSE
    /\ isProcessing' = TRUE
    /\ UNCHANGED <<createResp, insertResp>>
    /\ IF insertMode = "create"
       THEN /\ createReq' = <<[datasetId |-> datasetName, tableId |-> tableName,
                               schema |-> detectedSchema]>>
            /\ cpc' = "awaitCreate"
            /\ UNCHANGED insertReq
       ELSE /\ insertReq' = <<InsertBody>>
            /\ cpc' = "awaitInsert"
            /\ UNCHANGED createReq
    /\ UNCHANGED <<uploadedFile, detectedSchema, tableName, datasetName, showSchemaPreview,
                   schemaError, insertMode, dpc, checks, dispatched>>
    /\ UNCHANGED <<handlerVars, storeVars, pureVars>>

\* a createTable that takes the 409 for a success
AfterCreate_Ignores409(resp) ==
    IF resp.status \in {200, 409} THEN "insert" ELSE "error"

\* createTable's reading of the /api/tables/create answer: "conflict" (return
\* without inserting), "error" (throw) or "insert" (go on to the insert)
AfterCreate(resp) ==
    IF resp.status = 200 THEN "insert"
    ELSE IF resp.status = 409 THEN "conflict"
    ELSE "error"

\* createTable resumes with the answer of /api/tables/create
CreateTableCreated ==
    /\ cpc = "awaitCreate"
    /\ createResp # <<>>
    /\ createResp' = <<>>
    /\ LET next == AfterCreate(Head(createResp))
       IN  CASE next = "conflict" ->
                  /\ tableExistsWarning' = TRUE
                  /\ insertMode' = "append"
                  /\ isProcessing' = FALSE
                  /\ cpc' = "idle"
                  /\ outcome' = "conflict"
                  /\ UNCHANGED <<createTableError, insertReq, calls>>
             [] next = "error" \/ (next = "insert" /\ uploadedFile = NoFile) ->
                  \* throw new Error(createResult.error), or the TypeError of
                  \* uploadedFile.content after a reset
                  /\ createTableError' = "error"
                  /\ isProcessing' = FALSE
                  /\ cpc' = "idle"
                  /\ outcome' = "error"
                  /\ UNCHANGED <<tableExistsWarning, insertMode, insertReq, calls>>
             [] OTHER ->
                  /\ insertReq' = <<InsertBody>>
                  /\ cpc' = "awaitInsert"
                  /\ UNCHANGED <<createTableError, tableExistsWarning, insertMode,
                                 isProcessing, outcome>>
                  /\ calls' = Append(calls, Sent("insert", tableName))
    /\ UNCHANGED <<uploadedFile, detectedSchema, tableName, datasetName, showSchemaPreview,
                   schemaError, dpc, checks, dispatched>>
    /\ UNCHANGED <<createReq, insertResp, handlerVars, storeVars, ops, pureVars>>

ActionText(m) ==
    IF m = "create" THEN "created" ELSE IF m = "append" THEN "appended to" ELSE "replaced"

\* resetState
ResetState ==
    /\ uploadedFile' = NoFile
    /\ detectedSchema' = <<>>
    /\ tableName' = ""
    /\ showSchemaPreview' = FALSE
    /\ schemaError' = ""
    /\ createTableError' = ""
    /\ tableExistsWarning' = FALSE
    /\ insertMode' = "create"

\* createTable resumes with the answer of /api/data/insert
CreateTableInserted ==
    /\ cpc = "awaitInsert"
    /\ insertResp # <<>>
    /\ insertResp' = <<>>
    /\ cpc' = "idle"
    /\ isProcessing' = FALSE
    /\ IF Head(insertResp).status # 200
       THEN /\ createTableError' = "error"
            /\ outcome' = "error"
            /\ UNCHANGED <<uploadedFile, detectedSchema, tableName, showSchemaPreview,
                           schemaError, tableExistsWarning, insertMode, dispatched>>
       ELSE /\ dispatched' = <<[datasetId |-> datasetName, tableId |-> tableName,
                                 rowsInserted |-> Head(insertResp).rowsInserted,
                                 action |-> ActionText(insertMode)]>>
            /\ outcome' = "done"
            /\ ResetState
    /\ UNCHANGED <<datasetName, dpc, checks>>
    /\ UNCHANGED <<createReq, createResp, insertReq, handlerVars, storeVars, calls, ops,
                   pureVars>>

\* the Cancel button
Cancel ==
    /\ PreviewShown
    /\ Operator
    /\ ~isProcessing
    /\ ResetState
    /\ UNCHANGED <<datasetName, isProcessing, cpc, dpc, checks, dispatched>>
    /\ UNCHANGED <<netVars, handlerVars, storeVars, calls, outcome, pureVars>>

(***************************************************************************)
(* /api/tables/create                                                      *)
(***************************************************************************)
\* a handler that turns to the table before it turns to the dataset
CreateCalls_TableFirst(t, dsExists, tblExists) ==
    <<Call("table.exists", t, 0, 0, TRUE)>>
    \o (IF tblExists THEN <<>> ELSE <<Call("table.create", t, 0, 0, TRUE)>>)
    \o <<Call("dataset.exists", "", 0, 0, TRUE)>>
    \o (IF dsExists THEN <<>> ELSE <<Call("dataset.create", "", 0, 0, TRUE)>>)

\* The warehouse calls of the handler, in the order it awaits them, for a
\* dataset and table in the given state: the prefix it issues when the
\* call numbered `throws` throws (0: none does).
CreateCalls(t, dsExists, tblExists) ==
    <<Call("dataset.exists", "", 0, 0, TRUE)>>
    \o (IF dsExists THEN <<>> ELSE <<Call("dataset.create", "", 0, 0, TRUE)>>)
    \o <<Call("table.exists", t, 0, 0, TRUE)>>
    \o (IF tblExists THEN <<>> ELSE <<Call("table.create", t, 0, 0, TRUE)>>)

Failed(c) == [c EXCEPT !.ok = FALSE]

Issued(cs, throws) ==
    IF throws = 0 THEN cs
    ELSE [k \in 1..throws |-> IF k = throws THEN Failed(cs[k]) ELSE cs[k]]

Done(log, op, t) == \E k \in 1..Len(log) : log[k].op = op /\ log[k].tbl = t /\ log[k].ok

\* the handler's answer once its calls went through: 409 for a table that is there
CreateStatus(tblExists) == IF tblExists THEN 409 ELSE 200

ServerCreate ==
    /\ createReq # <<>>
    /\ createReq' = <<>>
    /\ LET req == Head(createReq)
           invalid == \/ req.datasetId = "" \/ req.tableId = ""
                      \/ \E k \in 1..Len(req.schema) : req.schema[k] = ""
           tblExists == req.tableId \in tables
           cs == CreateCalls(req.tableId, datasetExists, tblExists)
       IN  IF invalid
           THEN /\ createResp' = <<[status |-> 400]>>
                /\ calls' = Append(calls, Answered("create", req.tableId, 400))
                /\ UNCHANGED storeVars
           ELSE \E throws \in 0..Len(cs) :
                  LET log == Issued(cs, throws)
                      status == IF throws # 0 THEN 500 ELSE CreateStatus(tblExists)
                  IN  /\ calls' = calls \o log \o <<Answered("create", req.tableId, status)>>
                      /\ datasetExists' = (datasetExists \/ Done(log, "dataset.create", ""))
                      /\ tables' = IF Done(log, "table.create", req.tableId)
                                   THEN tables \cup {req.tableId} ELSE tables
                      /\ createResp' = <<[status |-> status]>>
    /\ UNCHANGED <<clientVars, insertReq, insertResp, handlerVars, outcome, ops, pureVars>>

(***************************************************************************)
(* /api/data/insert                                                        *)
(***************************************************************************)
Answer(status, inserted, total, mode) ==
    [status |-> status, rowsInserted |-> inserted, totalRows |-> total, mode |-> mode]

\* a handler that does not look at tableExists
AfterExists_Unchecked(exists, mode) ==
    IF mode = "replace" THEN "purge" ELSE "loop"

\* a purge whose error reaches the outer catch
AfterPurge_Propagates(ok) == IF ok THEN "loop" ELSE "throw"

\* a loop that a failed batch ends
NextIndex_BreaksOnFailure(at, n, ok) == IF ok THEN at + batchSize ELSE n

\* a counter that is advanced before the insert is awaited
Inserted_CountsFailures(total, len, ok) == total + len

\* a handler that purges before it tests tableExists
AfterExists_PurgesFirst(exists, mode) ==
    IF mode = "replace" THEN "purge" ELSE IF ~exists THEN "404" ELSE "loop"

\* after `const [tableExists] = await table.exists()`: 404, or on to the
\* purge of replace mode, or to the insert loop
AfterExists(exists, mode) ==
    IF ~exists THEN "404" ELSE IF mode = "replace" THEN "purge" ELSE "loop"

\* the try / catch around the DELETE job: the catch only warns
AfterPurge(ok) == "loop"

\* rows.slice(i, i + batchSize).length
BatchLen(at, n) == Min(batchSize, n - at)

\* for (...; i += batchSize): the catch of a failed batch does not leave the loop
NextIndex(at, n, ok) == at + batchSize

\* totalInserted += batch.length, after an insert that did not throw
Inserted(total, len, ok) == IF ok THEN total + len ELSE total

\* the handler returned: its locals are gone
Returned ==
    /\ hpc' = "idle"
    /\ hreq' = NoReq
    /\ rows' = 0
    /\ i' = 0
    /\ totalInserted' = 0

\* POST up to the await that follows the existence check
ServerInsertStart ==
    /\ insertReq # <<>>
    /\ hpc = "idle"
    /\ insertReq' = <<>>
    /\ LET req == Head(insertReq)
           c == req.content
           \* rows = parseCSV(content) or parseJSON(content), rows.length
           converted ==
               [Call("convert", req.tableId, 0, c.n, c.parse # "throws") EXCEPT
                   !.inputs.names = IF c.parse = "throws" THEN <<>> ELSE RowKeys(c)]
           asked(throws) == Call("table.exists", req.tableId, 0, 0, ~throws)
           fail(status, log) ==
               /\ insertResp' = <<Answer(status, 0, 0, req.mode)>>
               /\ calls' = calls \o log \o <<Answered("insert", req.tableId, status)>>
               /\ UNCHANGED <<hpc, hreq, rows, i, totalInserted>>
           go(next) ==
               /\ hpc' = next
               /\ hreq' = req
               /\ rows' = c.n
               /\ i' = 0
               /\ totalInserted' = 0
               /\ calls' = calls \o <<converted, asked(FALSE)>>
               /\ UNCHANGED insertResp
       IN  /\ IF req.datasetId = "" \/ req.tableId = "" \/ c.text = ""
              THEN fail(400, <<>>)
              ELSE IF c.parse = "throws"
              THEN fail(500, <<converted>>)
              ELSE IF c.n = 0
              THEN fail(400, <<converted>>)
              ELSE \E throws \in BOOLEAN :
                     IF throws
                     THEN fail(500, <<converted, asked(TRUE)>>)
                     ELSE LET next == AfterExists(datasetExists /\ req.tableId \in tables,
                                                  req.mode)
                          IN  IF next = "404"
                              THEN fail(404, <<converted, asked(FALSE)>>)
                              ELSE go(next)
    /\ UNCHANGED <<clientVars, createReq, createResp, storeVars, outcome, ops, pureVars>>

\* the DELETE ... WHERE TRUE job of replace mode
ServerPurge ==
    \E ok \in BOOLEAN :
        /\ hpc = "purge"
        /\ IF AfterPurge(ok) = "loop"
           THEN /\ hpc' = "loop"
                /\ calls' = Append(calls, Call("delete", hreq.tableId, 0, 0, ok))
                /\ UNCHANGED <<insertResp, hreq, rows, i, totalInserted>>
           ELSE /\ insertResp' = <<Answer(500, 0, 0, hreq.mode)>>
                /\ calls' = calls \o <<Call("delete", hreq.tableId, 0, 0, ok),
                                        Answered("insert", hreq.tableId, 500)>>
                /\ Returned
        /\ UNCHANGED <<clientVars, createReq, createResp, insertReq, storeVars, outcome,
                       ops, pureVars>>

\* one turn of the insert loop
ServerInsertBatch ==
    \E ok \in BOOLEAN :
        /\ hpc = "loop"
        /\ i < rows
        /\ LET len == BatchLen(i, rows)
           IN  /\ calls' = Append(calls, Call("insert", hreq.tableId, i, len, ok))
               /\ totalInserted' = Inserted(totalInserted, len, ok)
               /\ i' = NextIndex(i, rows, ok)
        /\ UNCHANGED <<clientVars, netVars, hpc, hreq, rows, storeVars, outcome, ops,
                       pureVars>>

\* the loop is over: return json({success: true, ...})
ServerInsertReturn ==
    /\ hpc = "loop"
    /\ i >= rows
    /\ insertResp' = <<Answer(200, totalInserted, rows, hreq.mode)>>
    /\ calls' = Append(calls, Answered("insert", hreq.tableId, 200))
    /\ Returned
    /\ UNCHANGED <<clientVars, createReq, createResp, insertReq, storeVars, outcome, ops,
                   pureVars>>

Next ==
    \/ HandleFileProcessed
    \/ DetectSchemaResponse
    \/ EditTableName
    \/ EditDatasetName
    \/ SelectMode
    \/ UpdateSchemaField
    \/ AddSchemaField
    \/ RemoveSchemaField
    \/ CheckTableExistsResponse
    \/ CreateTableStart
    \/ CreateTableCreated
    \/ CreateTableInserted
    \/ Cancel
    \/ ServerCreate
    \/ ServerInsertStart
    \/ ServerPurge
    \/ ServerInsertBatch
    \/ ServerInsertReturn

Init ==
    /\ LoadInit
    /\ PureIdle
    /\ insertReq = <<>>

Spec == Init /\ [][Next]_vars

(***************************************************************************)
(* The /api/data/insert handler on its own, taking any request the route   *)
(* accepts (mode defaults to append when the body names none).             *)
(***************************************************************************)
Requests ==
    [datasetId : DatasetNames, tableId : TableNames, content : Contents, mode : Modes]

InitInsert ==
    /\ LoadInit
    /\ PureIdle
    /\ insertReq \in {<<r>> : r \in Requests}

NextInsert ==
    \/ ServerInsertStart
    \/ ServerPurge
    \/ ServerInsertBatch
    \/ ServerInsertReturn

SpecInsert == InitInsert /\ [][NextInsert]_vars

(***************************************************************************)
(* Text.  A string is the sequence of its characters.                      *)
(***************************************************************************)
Str(n, alphabet) == UNION {[1..k -> alphabet] : k \in 0..n}

Digits == {"0", "1", "2", "3", "4", "5", "6", "7", "8", "9"}
LowerCase == <<"a", "b", "c", "d", "e", "f", "g", "h", "i", "j", "k", "l", "m",
               "n", "o", "p", "q", "r", "s", "t", "u", "v", "w", "x", "y", "z">>
UpperCase == <<"A", "B", "C", "D", "E", "F", "G", "H", "I", "J", "K", "L", "M",
               "N", "O", "P", "Q", "R", "S", "T", "U", "V", "W", "X", "Y", "Z">>
Range(f) == {f[k] : k \in DOMAIN f}
IsDigit(c) == c \in Digits
IsLetter(c) == c \in Range(LowerCase) \cup Range(UpperCase)
\* the white space String.prototype.trim removes
IsSpace(c) == c \in {" ", "\t", "\r", "\n"}

\* String.prototype.toLowerCase
LowerChar(c) ==
    IF c \in Range(UpperCase)
    THEN LowerCase[CHOOSE k \in DOMAIN UpperCase : UpperCase[k] = c]
    ELSE c
toLowerCase(s) == [k \in DOMAIN s |-> LowerChar(s[k])]

RECURSIVE trimStart(_)
trimStart(s) == IF s # <<>> /\ IsSpace(Head(s)) THEN trimStart(Tail(s)) ELSE s
RECURSIVE trimEnd(_)
trimEnd(s) ==
    IF s # <<>> /\ IsSpace(s[Len(s)]) THEN trimEnd(SubSeq(s, 1, Len(s) - 1)) ELSE s
\* String.prototype.trim
trim(s) == trimEnd(trimStart(s))

(***************************************************************************)
(* sanitizeFieldName (schema detection)                                    *)
(***************************************************************************)
unnamed_field == <<"u", "n", "n", "a", "m", "e", "d", "_", "f", "i", "e", "l", "d">>

\* .replace(/[^a-zA-Z0-9_]/g, '_')
ReplaceNonWord(s) ==
    [k \in DOMAIN s |-> IF IsLetter(s[k]) \/ IsDigit(s[k]) \/ s[k] = "_" THEN s[k] ELSE "_"]

\* .replace(/^[^a-zA-Z_]/, '_$&')
PrefixFirst(s) ==
    IF s # <<>> /\ ~(IsLetter(s[1]) \/ s[1] = "_") THEN <<"_">> \o s ELSE s

\* .replace(/__+/g, '_')
RECURSIVE CollapseUnderscores(_)
CollapseUnderscores(s) ==
    IF Len(s) < 2 THEN s
    ELSE IF s[1] = "_" /\ s[2] = "_" THEN CollapseUnderscores(Tail(s))
    ELSE <<s[1]>> \o CollapseUnderscores(Tail(s))

\* .replace(/^_+|_+$/g, '')
RECURSIVE StripLeading(_)
StripLeading(s) == IF s # <<>> /\ Head(s) = "_" THEN StripLeading(Tail(s)) ELSE s
RECURSIVE StripTrailing(_)
StripTrailing(s) ==
    IF s # <<>> /\ s[Len(s)] = "_" THEN StripTrailing(SubSeq(s, 1, Len(s) - 1)) ELSE s
StripUnderscores(s) == StripTrailing(StripLeading(s))

\* ... || 'unnamed_field'
OrUnnamed(s) == IF s = <<>> THEN unnamed_field ELSE s

\* a chain that collapses the underscores before it replaces the other characters
sanitizeFieldName_CollapsesFirst(name) ==
    OrUnnamed(StripUnderscores(PrefixFirst(ReplaceNonWord(
        CollapseUnderscores(toLowerCase(trim(name)))))))

sanitizeFieldName(name) ==
    OrUnnamed(StripUnderscores(CollapseUnderscores(PrefixFirst(
        ReplaceNonWord(toLowerCase(trim(name)))))))

\* the characters the names are drawn from: a lower-case and an upper-case
\* letter, a digit, the underscore, white space, and a character outside
\* [a-zA-Z0-9_]
NameAlphabet == {"a", "B", "1", "_", " ", "-"}

InitSan ==
    /\ LoadIdle
    /\ input \in Str(MaxName, NameAlphabet)
    /\ output = <<>>

Sanitize ==
    /\ output = <<>>
    /\ output' = <<sanitizeFieldName(input)>>
    /\ UNCHANGED <<loadVars, input>>


(***************************************************************************)
(* The patterns of inferColumnType and convertValue.                       *)
(***************************************************************************)
AllDigits(s) == \A k \in DOMAIN s : IsDigit(s[k])
Unsigned(s) == IF s # <<>> /\ Head(s) = "-" THEN Tail(s) ELSE s
\* /^-?\d+$/
IsIntegerText(s) == Unsigned(s) # <<>> /\ AllDigits(Unsigned(s))
\* /^-?\d+\.\d+$/
IsFloatText(s) ==
    \E d \in DOMAIN Unsigned(s) :
        LET u == Unsigned(s)
        IN  /\ u[d] = "."
            /\ d > 1 /\ d < Len(u)
            /\ AllDigits(SubSeq(u, 1, d - 1))
            /\ AllDigits(SubSeq(u, d + 1, Len(u)))
\* \d{4}-\d{2}-\d{2} at the start of s
HasDatePrefix(s) ==
    /\ Len(s) >= 10
    /\ \A k \in {1, 2, 3, 4, 6, 7, 9, 10} : IsDigit(s[k])
    /\ s[5] = "-" /\ s[8] = "-"
\* /^\d{4}-\d{2}-\d{2}[T ]\d{2}:\d{2}:\d{2}/
IsTimestampText(s) ==
    /\ Len(s) >= 19
    /\ HasDatePrefix(s)
    /\ s[11] \in {"T", " "}
    /\ \A k \in {12, 13, 15, 16, 18, 19} : IsDigit(s[k])
    /\ s[14] = ":" /\ s[17] = ":"
\* /^\d{1,2}\/\d{1,2}\/\d{4}$/
IsSlashDate(s) ==
    \E a \in {1, 2}, b \in {1, 2} :
        /\ Len(s) = a + b + 6
        /\ AllDigits(SubSeq(s, 1, a))
        /\ s[a + 1] = "/"
        /\ AllDigits(SubSeq(s, a + 2, a + b + 1))
        /\ s[a + b + 2] = "/"
        /\ AllDigits(SubSeq(s, a + b + 3, Len(s)))
\* /^\d{4}-\d{2}-\d{2}$/ or /^\d{1,2}\/\d{1,2}\/\d{4}$/
IsDateText(s) == (Len(s) = 10 /\ HasDatePrefix(s)) \/ IsSlashDate(s)

null_ == <<"n", "u", "l", "l">>
\* strValue === '' || strValue.toLowerCase() === 'null'
IsBlankOrNull(s) == s = <<>> \/ toLowerCase(s) = null_

\* ['true', 'false', '1', '0', 'yes', 'no', 'y', 'n']
BooleanWords == {<<"t", "r", "u", "e">>, <<"f", "a", "l", "s", "e">>, <<"1">>, <<"0">>, <<"y", "e", "s">>, <<"n", "o">>, <<"y">>, <<"n">>}
\* ['true', 'yes', 'y', '1'] and ['false', 'no', 'n', '0']
TrueWords == {<<"t", "r", "u", "e">>, <<"y", "e", "s">>, <<"y">>, <<"1">>}
FalseWords == {<<"f", "a", "l", "s", "e">>, <<"n", "o">>, <<"n">>, <<"0">>}

(***************************************************************************)
(* inferColumnType (schema detection)                                      *)
(***************************************************************************)
typeCounts0 ==
    [integer |-> 0, float |-> 0, boolean |-> 0, date |-> 0, timestamp |-> 0, string |-> 0]

\* a callback that tests the integer pattern before the boolean words
Vote_IntegerFirst(value) ==
    LET strValue == trim(value)
    IN  IF IsBlankOrNull(strValue) THEN "skip"
        ELSE IF IsIntegerText(strValue) THEN "integer"
        ELSE IF toLowerCase(strValue) \in BooleanWords THEN "boolean"
        ELSE IF IsFloatText(strValue) THEN "float"
        ELSE IF IsTimestampText(strValue) THEN "timestamp"
        ELSE IF IsDateText(strValue) THEN "date"
        ELSE "string"

\* the forEach callback: the counter one value increments ("skip": none)
Vote(value) ==
    LET strValue == trim(value)
    IN  IF IsBlankOrNull(strValue) THEN "skip"
        ELSE IF toLowerCase(strValue) \in BooleanWords THEN "boolean"
        ELSE IF IsIntegerText(strValue) THEN "integer"
        ELSE IF IsFloatText(strValue) THEN "float"
        ELSE IF IsTimestampText(strValue) THEN "timestamp"
        ELSE IF IsDateText(strValue) THEN "date"
        ELSE "string"

\* values.forEach(...)
RECURSIVE Tally(_, _)
Tally(values, counts) ==
    IF values = <<>> THEN counts
    ELSE LET v == Vote(Head(values))
         IN  Tally(Tail(values),
                   IF v = "skip" THEN counts ELSE [counts EXCEPT ![v] = @ + 1])

\* Object.values(typeCounts).reduce((sum, count) => sum + count, 0)
Total(counts) ==
    counts.integer + counts.float + counts.boolean + counts.date + counts.timestamp
    + counts.string

\* a bar of more than half of the votes
Reaches_Majority(count, total) == count * 2 > total

\* count >= total * 0.7
Reaches(count, total) == count * 10 >= total * 7

Winner(counts) ==
    LET total == Total(counts)
    IN  IF Reaches(counts.integer, total) THEN "INTEGER"
        ELSE IF Reaches(counts.float, total) THEN "FLOAT"
        ELSE IF Reaches(counts.boolean, total) THEN "BOOLEAN"
        ELSE IF Reaches(counts.timestamp, total) THEN "TIMESTAMP"
        ELSE IF Reaches(counts.date, total) THEN "DATE"
        ELSE "STRING"

inferColumnType(values) ==
    IF Len(values) = 0 THEN "STRING" ELSE Winner(Tally(values, typeCounts0))

(***************************************************************************)
(* convertValue (row conversion).  A converted value is null, a boolean, a *)
(* string, or the number num / 10^scale with no trailing zero in num       *)
(* unless scale is 0.                                                      *)
(***************************************************************************)
Null == [kind |-> "null", num |-> 0, scale |-> 0, str |-> <<>>]
Bool(b) == [kind |-> "boolean", num |-> IF b THEN 1 ELSE 0, scale |-> 0, str |-> <<>>]
Text(s) == [kind |-> "string", num |-> 0, scale |-> 0, str |-> s]
RECURSIVE Number(_, _)
Number(n, scale) ==
    IF scale > 0 /\ n % 10 = 0 THEN Number(n \div 10, scale - 1)
    ELSE [kind |-> "number", num |-> n, scale |-> scale, str |-> <<>>]

DigitSeq == <<"0", "1", "2", "3", "4", "5", "6", "7", "8", "9">>
DigitValue(c) == (CHOOSE k \in DOMAIN DigitSeq : DigitSeq[k] = c) - 1
RECURSIVE Magnitude(_, _)
Magnitude(s, acc) ==
    IF s = <<>> THEN acc ELSE Magnitude(Tail(s), acc * 10 + DigitValue(Head(s)))
Signed(s, n) == IF s # <<>> /\ Head(s) = "-" THEN 0 - n ELSE n
\* parseInt(strValue, 10) of a text that matches /^-?\d+$/
parseInt(s) == Signed(s, Magnitude(Unsigned(s), 0))
\* parseFloat(strValue) of a text that matches /^-?\d+\.\d+$/
parseFloat(s) ==
    LET u == Unsigned(s)
        d == CHOOSE k \in DOMAIN u : u[k] = "."
    IN  Number(Signed(s, Magnitude(SubSeq(u, 1, d - 1) \o SubSeq(u, d + 1, Len(u)), 0)),
               Len(u) - d)

\* a conversion that tries the numbers before the boolean words
convertValue_NumbersFirst(value) ==
    LET strValue == trim(value)
        lowerStr == toLowerCase(strValue)
    IN  IF IsBlankOrNull(strValue) THEN Null
        ELSE IF IsIntegerText(strValue) THEN Number(parseInt(strValue), 0)
        ELSE IF IsFloatText(strValue) THEN parseFloat(strValue)
        ELSE IF lowerStr \in TrueWords THEN Bool(TRUE)
        ELSE IF lowerStr \in FalseWords THEN Bool(FALSE)
        ELSE Text(strValue)

convertValue(value) ==
    LET strValue == trim(value)
        lowerStr == toLowerCase(strValue)
    IN  IF IsBlankOrNull(strValue) THEN Null
        ELSE IF lowerStr \in TrueWords THEN Bool(TRUE)
        ELSE IF lowerStr \in FalseWords THEN Bool(FALSE)
        ELSE IF IsIntegerText(strValue) THEN Number(parseInt(strValue), 0)
        ELSE IF IsFloatText(strValue) THEN parseFloat(strValue)
        ELSE Text(strValue)

\* the raw values the columns are drawn from
RawValues ==
    {<<"1">>,
     <<"2">>,
     <<"t", "r", "u", "e">>,
     <<"f", "a", "l", "s", "e">>, <<"N", "o">>,
     <<"1", ".", "5">>,
     <<"a">>,
     <<" ", "N", "u", "l", "l", " ">>}

\* dates and timestamps, with a blank, a word, a letter and numbers to mix
\* them with
DateValues ==
    {<<>>,
     <<"-", "7">>,
     <<"a">>,
     <<"b">>,
     <<"1">>,
     <<"2", "0", "2", "4", "-", "0", "1", "-", "0", "1">>,
     <<"1", "/", "2", "/", "2", "0", "2", "4">>,
     <<"2", "0", "2", "4", "-", "0", "1", "-", "0", "1", "T", "1", "0", ":", "2", "0", ":", "3", "0", "Z">>}

Columns ==
    UNION {[1..k -> RawValues] : k \in 0..MaxColumn}
    \cup UNION {[1..k -> DateValues] : k \in 0..MaxColumn}

InitType ==
    /\ LoadIdle
    /\ input \in Columns
    /\ output = <<>>

\* the column goes through inference: the tally and the type it yields
InferColumn ==
    /\ output = <<>>
    /\ output' = <<[typeCounts |-> IF Len(input) = 0 THEN typeCounts0
                                   ELSE Tally(input, typeCounts0),
                    type |-> inferColumnType(input)]>>
    /\ UNCHANGED <<loadVars, input>>

\* then every value of the column goes through conversion
ConvertColumn ==
    /\ Len(output) = 1
    /\ output' = output \o <<[k \in DOMAIN input |-> convertValue(input[k])]>>
    /\ UNCHANGED <<loadVars, input>>

NextType == InferColumn \/ ConvertColumn

SpecType == InitType /\ [][NextType]_vars

(***************************************************************************)
(* parseCSVLine: the copy of the insert route and the copy of schema       *)
(* detection.                                                              *)
(***************************************************************************)
RECURSIVE ScanLine(_, _, _, _, _)
ScanLine(line, at, current, inQuotes, result) ==
    IF at > Len(line) THEN Append(result, trim(current))
    ELSE IF line[at] = "\""
    THEN IF inQuotes /\ at < Len(line) /\ line[at + 1] = "\""
         THEN ScanLine(line, at + 2, Append(current, "\""), inQuotes, result)
         ELSE ScanLine(line, at + 1, current, ~inQuotes, result)
    ELSE IF line[at] = "," /\ ~inQuotes
    THEN ScanLine(line, at + 1, <<>>, inQuotes, Append(result, trim(current)))
    ELSE ScanLine(line, at + 1, Append(current, line[at]), inQuotes, result)

\* a tokenizer that ends a field at every comma and drops the quotes
RECURSIVE SplitAtCommas(_, _, _)
SplitAtCommas(line, current, result) ==
    IF line = <<>> THEN Append(result, trim(current))
    ELSE IF Head(line) = "," THEN SplitAtCommas(Tail(line), <<>>, Append(result, trim(current)))
    ELSE IF Head(line) = "\"" THEN SplitAtCommas(Tail(line), current, result)
    ELSE SplitAtCommas(Tail(line), Append(current, Head(line)), result)
parseCSVLine_SplitsEveryComma(line) == SplitAtCommas(line, <<>>, <<>>)

parseCSVLine(line) == ScanLine(line, 1, <<>>, FALSE, <<>>)

RECURSIVE ScanLineDetect(_, _, _, _, _)
ScanLineDetect(line, at, current, inQuotes, result) ==
    IF at > Len(line) THEN Append(result, trim(current))
    ELSE IF line[at] = "\""
    THEN IF inQuotes /\ at < Len(line) /\ line[at + 1] = "\""
         THEN ScanLineDetect(line, at + 2, Append(current, "\""), inQuotes, result)
         ELSE ScanLineDetect(line, at + 1, current, ~inQuotes, result)
    ELSE IF line[at] = "," /\ ~inQuotes
    THEN ScanLineDetect(line, at + 1, <<>>, inQuotes, Append(result, trim(current)))
    ELSE ScanLineDetect(line, at + 1, Append(current, line[at]), inQuotes, result)

parseCSVLineDetect(line) == ScanLineDetect(line, 1, <<>>, FALSE, <<>>)

\* String.prototype.split('\n')
RECURSIVE SplitFrom(_, _, _)
SplitFrom(s, current, result) ==
    IF s = <<>> THEN Append(result, current)
    ELSE IF Head(s) = "\n" THEN SplitFrom(Tail(s), <<>>, Append(result, current))
    ELSE SplitFrom(Tail(s), Append(current, Head(s)), result)
split(s) == SplitFrom(s, <<>>, <<>>)

\* csvContent.trim().split('\n')
LinesOf(csvContent) == split(trim(csvContent))

(***************************************************************************)
(* parseCSV (row conversion).  A row is the list of its keys, in the order *)
(* they were first assigned, each with the value last assigned to it.      *)
(***************************************************************************)
\* the field-name chain written out in parseCSV
cleanFieldName(header) ==
    OrUnnamed(StripUnderscores(CollapseUnderscores(PrefixFirst(
        ReplaceNonWord(toLowerCase(trim(header)))))))

\* row[fieldName] = v
Assign(row, key, v) ==
    IF \E k \in DOMAIN row : row[k].key = key
    THEN [k \in DOMAIN row |-> IF row[k].key = key THEN [key |-> key, val |-> v] ELSE row[k]]
    ELSE Append(row, [key |-> key, val |-> v])

\* value === null || value === undefined || value.trim() === '' ? null : convertValue(value)
CellValue(value) == IF trim(value) = <<>> THEN Null ELSE convertValue(value)

\* headers.forEach((header, index) => ...)
RECURSIVE FillRow(_, _, _, _)
FillRow(headers, values, index, row) ==
    IF index > Len(headers) THEN row
    ELSE FillRow(headers, values, index + 1,
                 Assign(row, cleanFieldName(headers[index]), CellValue(values[index])))

\* a loop that the first line of the wrong length ends
RECURSIVE ConvertLines_StopsAtMismatch(_, _, _, _)
ConvertLines_StopsAtMismatch(lines, headers, at, result) ==
    IF at > Len(lines) THEN result
    ELSE LET values == parseCSVLine(lines[at])
         IN  IF Len(values) # Len(headers)
             THEN result
             ELSE ConvertLines_StopsAtMismatch(lines, headers, at + 1,
                      Append(result, FillRow(headers, values, 1, <<>>)))

\* for (let i = 1; i < lines.length; i++): a line of the wrong length is skipped
RECURSIVE ConvertLines(_, _, _, _)
ConvertLines(lines, headers, at, result) ==
    IF at > Len(lines) THEN result
    ELSE LET values == parseCSVLine(lines[at])
         IN  IF Len(values) # Len(headers)
             THEN ConvertLines(lines, headers, at + 1, result)
             ELSE ConvertLines(lines, headers, at + 1,
                               Append(result, FillRow(headers, values, 1, <<>>)))

parseCSV(csvContent) ==
    LET lines == LinesOf(csvContent)
    IN  IF Len(lines) < 2
        THEN [threw |-> TRUE, rows |-> <<>>]
        ELSE [threw |-> FALSE,
              rows |-> ConvertLines(lines, parseCSVLine(lines[1]), 2, <<>>)]

(***************************************************************************)
(* detectCSVSchema (schema detection)                                      *)
(***************************************************************************)
\* lines.slice(1, Math.min(11, lines.length))
sampleEnd == 11
\* a sample that takes every data line
SampleLines_Unbounded(lines) == SubSeq(lines, 2, Len(lines))

SampleLines(lines) == SubSeq(lines, 2, Min(sampleEnd, Len(lines)))

\* a filter that keeps the empty token
IsPresent_KeepsBlank(row, index) == index <= Len(row)

IsPresent(row, index) == index <= Len(row) /\ row[index] # <<>>

\* sampleRows.map(row => row[index]).filter(val => val !== null && val !== undefined && val !== '')
RECURSIVE ColumnValues(_, _)
ColumnValues(sampleRows, index) ==
    IF sampleRows = <<>> THEN <<>>
    ELSE (IF IsPresent(Head(sampleRows), index) THEN <<Head(sampleRows)[index]>> ELSE <<>>)
         \o ColumnValues(Tail(sampleRows), index)

detectCSVSchema(csvContent) ==
    LET lines == LinesOf(csvContent)
    IN  IF Len(lines) < 2
        THEN [threw |-> TRUE, schema |-> <<>>]
        ELSE LET headers == parseCSVLineDetect(lines[1])
                 sample == SampleLines(lines)
                 sampleRows == [k \in DOMAIN sample |-> parseCSVLineDetect(sample[k])]
             IN  [threw |-> FALSE,
                  schema |->
                     [index \in DOMAIN headers |->
                        LET columnValues == ColumnValues(sampleRows, index)
                        IN  [name |-> sanitizeFieldName(headers[index]),
                             type |-> inferColumnType(columnValues),
                             mode |-> IF Len(columnValues) = Len(sampleRows)
                                      THEN "REQUIRED" ELSE "NULLABLE"]]]

\* the lines the generated documents are made of
LineTexts ==
    {<<"a", ",", "b">>,
     <<"a">>,
     <<"1", ",", "2">>,
     <<"3">>,
     <<"x", ",">>,
     <<>>,
     <<"\"", "p", ",", "q", "\"", ",", "1">>}

\* "id,name\n1,Alice\n2,Bob\n3,"
ExampleCsv ==
    <<"i", "d", ",", "n", "a", "m", "e", "\n", "1", ",", "A", "l",
      "i", "c", "e", "\n", "2", ",", "B", "o", "b", "\n", "3", ",">>

\* "a,A\n1,2": two headers that differ in case only
SameNameCsv == <<"a", ",", "A", "\n", "1", ",", "2">>

\* "a\nnull": a column that holds the text null
NullTextCsv == <<"a", "\n", "n", "u", "l", "l">>

RECURSIVE JoinLines(_)
JoinLines(ls) ==
    IF Len(ls) = 1 THEN ls[1] ELSE ls[1] \o <<"\n">> \o JoinLines(Tail(ls))

\* documents that reach past the sample: a header, 9 or 10 equal data lines
\* and one more line, which is the last line sampled or the first one not sampled
LongDocuments ==
    {JoinLines(<<<<"a", ",", "b">>>> \o [k \in 1..n |-> <<"2", ",", "x">>] \o <<l>>) :
        n \in {sampleEnd - 2, sampleEnd - 1}, l \in LineTexts}

Documents ==
    {JoinLines(ls) : ls \in UNION {[1..k -> LineTexts] : k \in 1..MaxLines}}
    \cup {ExampleCsv, SameNameCsv, NullTextCsv}
    \cup LongDocuments

InitCsv ==
    /\ LoadIdle
    /\ input \in Documents
    /\ output = <<>>

\* the document goes through /api/schema/detect
DetectCsv ==
    /\ output = <<>>
    /\ output' = <<detectCSVSchema(input)>>
    /\ UNCHANGED <<loadVars, input>>

\* then through the conversion of /api/data/insert
ConvertCsv ==
    /\ Len(output) = 1
    /\ output' = output \o <<parseCSV(input)>>
    /\ UNCHANGED <<loadVars, input>>

NextCsv == DetectCsv \/ ConvertCsv

SpecCsv == InitCsv /\ [][NextCsv]_vars

(***************************************************************************)
(* JSON documents, as JSON.parse returns them.  A document is invalid (the *)
(* parse throws), null, a scalar, one object, or an array; an element is   *)
(* null, a scalar or an object; an object is the list of its keys in       *)
(* Object.keys order, each with a null or scalar value.  text is what      *)
(* String(value) yields.  Keys are not integer-like, so Object.keys keeps  *)
(* the order of the document.                                              *)
(***************************************************************************)
JNull == [kind |-> "null", text |-> <<>>]
JNumber(t) == [kind |-> "number", text |-> t]
JString(t) == [kind |-> "string", text |-> t]
JObject(ms) == [kind |-> "object", text |-> <<>>, members |-> ms]
Elem(v) == [kind |-> v.kind, text |-> v.text, members |-> <<>>]
Member(k, v) == [key |-> k, val |-> v]

\* typeof record === 'object' && record !== null
IsObject(record) == record.kind = "object"

\* Object.keys(record)
Keys(record) == [k \in DOMAIN record.members |-> record.members[k].key]
HasKey(record, key) == \E k \in DOMAIN record.members : record.members[k].key = key
\* record[key], undefined when the record has no such key
Lookup(record, key) ==
    record.members[CHOOSE k \in DOMAIN record.members : record.members[k].key = key].val

\* data.slice(0, 10)
sampleRecords == 10

\* allFields.add(key): a Set keeps insertion order
RECURSIVE AddAll(_, _)
AddAll(fields, keys) ==
    IF keys = <<>> THEN fields
    ELSE AddAll(IF \E k \in DOMAIN fields : fields[k] = Head(keys)
                THEN fields ELSE Append(fields, Head(keys)),
                Tail(keys))

\* a collection that reads the keys of the first record only
AllFields_FirstRecord(records, fields) ==
    IF records = <<>> \/ ~IsObject(Head(records)) THEN fields
    ELSE AddAll(fields, Keys(Head(records)))

\* records.forEach(record => { if (object) Object.keys(record).forEach(add) })
RECURSIVE AllFields(_, _)
AllFields(records, fields) ==
    IF records = <<>> THEN fields
    ELSE AllFields(Tail(records),
                   IF IsObject(Head(records)) THEN AddAll(fields, Keys(Head(records)))
                   ELSE fields)

\* records.map(record => record[fieldName]).filter(val => val !== null && val !== undefined)
RECURSIVE FieldValues(_, _)
FieldValues(records, fieldName) ==
    IF records = <<>> THEN <<>>
    ELSE (IF HasKey(Head(records), fieldName)
             /\ Lookup(Head(records), fieldName).kind # "null"
          THEN <<Lookup(Head(records), fieldName).text>> ELSE <<>>)
         \o FieldValues(Tail(records), fieldName)

\* the records detectJSONSchema samples; "throws" for a document that is
\* neither an array nor an object
SampleRecords(doc) ==
    IF doc.top = "array" THEN SubSeq(doc.elems, 1, Min(sampleRecords, Len(doc.elems)))
    ELSE doc.elems

detectJSONSchema(doc) ==
    LET records == SampleRecords(doc)
        allFields == AllFields(records, <<>>)
    IN  IF doc.top \notin {"array", "object"} \/ Len(records) = 0
        THEN [threw |-> TRUE, schema |-> <<>>]
        \* null[fieldName] is a TypeError
        ELSE IF allFields # <<>> /\ \E r \in DOMAIN records : records[r].kind = "null"
        THEN [threw |-> TRUE, schema |-> <<>>]
        ELSE [threw |-> FALSE,
              schema |->
                 [f \in DOMAIN allFields |->
                    LET values == FieldValues(records, allFields[f])
                    IN  [name |-> sanitizeFieldName(allFields[f]),
                         type |-> inferColumnType(values),
                         mode |-> IF Len(values) = Len(records)
                                  THEN "REQUIRED" ELSE "NULLABLE"]]]

\* a chain that keeps the case of the key
cleanKey_KeepsCase(key) ==
    OrUnnamed(StripUnderscores(CollapseUnderscores(PrefixFirst(ReplaceNonWord(trim(key))))))

\* the key chain written out in parseJSON
cleanKey(key) ==
    OrUnnamed(StripUnderscores(CollapseUnderscores(PrefixFirst(
        ReplaceNonWord(toLowerCase(trim(key)))))))

\* the same raw name then goes through the chains of parseCSV and parseJSON
CleanNames ==
    /\ Len(output) = 1
    /\ output' = output \o <<cleanFieldName(input), cleanKey(input)>>
    /\ UNCHANGED <<loadVars, input>>

\* the sanitized name goes through sanitizeFieldName once more
SanitizeAgain ==
    /\ Len(output) = 3
    /\ output' = Append(output, sanitizeFieldName(output[1]))
    /\ UNCHANGED <<loadVars, input>>

NextSan == Sanitize \/ CleanNames \/ SanitizeAgain

SpecSan == InitSan /\ [][NextSan]_vars

\* convertValue(record[key]) of a parsed value
ConvertMember(v) == IF v.kind = "null" THEN Null ELSE convertValue(v.text)

\* Object.keys(record).forEach(key => cleanRecord[cleanKey] = convertValue(record[key]))
RECURSIVE CleanRecord(_, _, _)
CleanRecord(record, at, row) ==
    IF at > Len(record.members) THEN row
    ELSE CleanRecord(record, at + 1,
                     Assign(row, cleanKey(record.members[at].key),
                            ConvertMember(record.members[at].val)))

\* a map that leaves out the records that are not objects
RECURSIVE CleanRecords_SkipsOthers(_)
CleanRecords_SkipsOthers(records) ==
    IF records = <<>> THEN [threw |-> FALSE, rows |-> <<>>]
    ELSE LET rest == CleanRecords_SkipsOthers(Tail(records))
         IN  IF ~IsObject(Head(records)) THEN rest
             ELSE [threw |-> FALSE,
                   rows |-> <<CleanRecord(Head(records), 1, <<>>)>> \o rest.rows]

\* records.map(record => ...): a record that is not an object throws
RECURSIVE CleanRecords(_)
CleanRecords(records) ==
    IF records = <<>> THEN [threw |-> FALSE, rows |-> <<>>]
    ELSE IF ~IsObject(Head(records)) THEN [threw |-> TRUE, rows |-> <<>>]
    ELSE LET rest == CleanRecords(Tail(records))
         IN  IF rest.threw THEN rest
             ELSE [threw |-> FALSE,
                   rows |-> <<CleanRecord(Head(records), 1, <<>>)>> \o rest.rows]

parseJSON(doc) ==
    IF doc.top \notin {"array", "object"}
    THEN [threw |-> TRUE, rows |-> <<>>]
    ELSE CleanRecords(doc.elems)

\* the elements the generated arrays are made of:
\* {"id": 1}, {"id": 2, "Name": "x"}, {"a b": "y", "a_b": null}, null, 5
Elements ==
    {JObject(<<Member(<<"i", "d">>, JNumber(<<"1">>))>>),
     JObject(<<Member(<<"i", "d">>, JNumber(<<"2">>)), Member(<<"N", "a", "m", "e">>, JString(<<"x">>))>>),
     JObject(<<Member(<<"a", " ", "b">>, JString(<<"y">>)), Member(<<"a", "_", "b">>, JNull)>>),
     Elem(JNull),
     Elem(JNumber(<<"5">>))}

JsonDoc(top, elems) == [top |-> top, elems |-> elems]

\* an array of 9 or 10 equal objects and one more element, which is the last
\* element sampled or the first one not sampled
LongArrays ==
    {JsonDoc("array", [k \in 1..n |-> JObject(<<Member(<<"i", "d">>, JNumber(<<"2">>))>>)] \o <<e>>) :
        n \in {sampleRecords - 1, sampleRecords}, e \in Elements}

JsonDocuments ==
    {JsonDoc(top, <<>>) : top \in {"invalid", "null", "scalar"}}
    \cup {JsonDoc("object", <<e>>) : e \in {x \in Elements : IsObject(x)}}
    \cup {JsonDoc("array", es) : es \in UNION {[1..k -> Elements] : k \in 0..MaxElems}}
    \cup LongArrays

\* the request body that carries the document, by what parseJSON makes of it
JsonContent(doc) ==
    [text |-> "json",
     detect |-> ~detectJSONSchema(doc).threw,
     parse |-> IF parseJSON(doc).threw THEN "throws" ELSE "rows",
     n |-> Len(parseJSON(doc).rows)]

InitJson ==
    /\ LoadInit
    /\ input \in JsonDocuments
    /\ output = <<>>
    /\ \E mode \in Modes :
          insertReq = <<[datasetId |-> "ds", tableId |-> "t1",
                         content |-> JsonContent(input), mode |-> mode]>>

\* the document goes through /api/schema/detect
DetectJson ==
    /\ output = <<>>
    /\ output' = <<detectJSONSchema(input)>>
    /\ UNCHANGED <<loadVars, input>>

\* then through the conversion of /api/data/insert
ConvertJson ==
    /\ Len(output) = 1
    /\ output' = output \o <<parseJSON(input)>>
    /\ UNCHANGED <<loadVars, input>>

NextJson == DetectJson \/ ConvertJson \/ NextInsert

SpecJson == InitJson /\ [][NextJson]_vars

(***************************************************************************)
(* POST /api/schema/detect.  A request names its type and carries the text *)
(* of a CSV document or of a JSON document.                                *)
(***************************************************************************)
NoJson == JsonDoc("invalid", <<>>)

DetectRequests ==
    {[type |-> "csv", csv |-> d, json |-> NoJson] : d \in Documents}
    \cup {[type |-> "json", csv |-> <<>>, json |-> j] : j \in JsonDocuments}
    \cup {[type |-> "xml", csv |-> ExampleCsv, json |-> NoJson]}

DetectAnswer(status, schema) == [status |-> status, schema |-> schema]

\* the handler: 400 without content or type, the schema of the document, 500
\* when the detection throws
DetectPost(req) ==
    IF req.type = "csv" /\ req.csv = <<>> THEN DetectAnswer(400, <<>>)
    ELSE IF req.type \notin {"csv", "json"} THEN DetectAnswer(400, <<>>)
    ELSE LET result == IF req.type = "csv" THEN detectCSVSchema(req.csv)
                       ELSE detectJSONSchema(req.json)
         IN  IF result.threw THEN DetectAnswer(500, <<>>)
             ELSE DetectAnswer(200, result.schema)

InitDetect ==
    /\ LoadIdle
    /\ input \in DetectRequests
    /\ output = <<>>

DetectSchemaPost ==
    /\ output = <<>>
    /\ output' = <<DetectPost(input)>>
    /\ UNCHANGED <<loadVars, input>>

NextDetect == DetectSchemaPost

SpecDetect == InitDetect /\ [][NextDetect]_vars

(***************************************************************************)
(* One line of text through both copies of parseCSVLine.                   *)
(***************************************************************************)
\* a letter, the comma, the quote and a blank
LineAlphabet == {"a", ",", "\"", " "}
\* a,"b,c",d
QuotedComma == <<"a", ",", "\"", "b", ",", "c", "\"", ",", "d">>
\* a,"b""c",d
DoubledQuote == <<"a", ",", "\"", "b", "\"", "\"", "c", "\"", ",", "d">>

InitLine ==
    /\ LoadIdle
    /\ input \in Str(MaxLine, LineAlphabet) \cup {QuotedComma, DoubledQuote}
    /\ output = <<>>

\* the line goes through the copy of the insert route, then through the copy
\* of schema detection
TokenizeLine ==
    /\ output = <<>>
    /\ output' = <<parseCSVLine(input), parseCSVLineDetect(input)>>
    /\ UNCHANGED <<loadVars, input>>

NextLine == TokenizeLine

SpecLine == InitLine /\ [][NextLine]_vars

(***************************************************************************)
(* Reading the history.                                                    *)
(***************************************************************************)
Ops(names) == {k \in 1..Len(calls) : calls[k].op \in names}
IsInsert(c) == c.op = "insert"
InsertCalls == SelectSeq(calls, IsInsert)
\* rows.length of the conversion the history holds (0 when it holds none)
Converted == IF Ops({"convert"}) = {} THEN 0
             ELSE calls[CHOOSE k \in Ops({"convert"}) : TRUE].len
Batches(n) == (n + batchSize - 1) \div batchSize
RECURSIVE SumOk(_)
SumOk(cs) == IF cs = <<>> THEN 0
             ELSE (IF Head(cs).ok THEN Head(cs).len ELSE 0) + SumOk(Tail(cs))
AnsweredWith(route, statuses) ==
    {k \in Ops({"answer " \o route}) : calls[k].start \in statuses}

(***************************************************************************)
(* C1. When /api/tables/create finds the table of a create-mode load       *)
(* already there it answers 409 without creating anything, and createTable *)
(* ends the load on that answer: nothing follows it in the load's history  *)
(* (no /api/data/insert request, no purge, no row insert) and the load is  *)
(* reported as a conflict.                                                 *)
(***************************************************************************)
C1_ConflictSendsNoInsert ==
    /\ \A k \in AnsweredWith("create", {409}) :
          /\ k = Len(calls)
          /\ Ops({"POST insert", "insert", "delete", "table.create"}) = {}
          /\ insertReq = <<>> /\ insertResp = <<>> /\ hpc = "idle"
          /\ calls[k - 1].op = "table.exists" /\ calls[k - 1].ok
          /\ calls[k].tbl \in tables
          /\ (cpc = "idle" => outcome = "conflict")
    /\ \A k \in Ops({"answer create"}) :
          (calls[k - 1].op = "table.exists" /\ calls[k - 1].ok) => calls[k].start = 409
    /\ (outcome = "conflict" => AnsweredWith("create", {409}) # {})

C1_Witness ==
    /\ outcome = "conflict"
    /\ cpc = "idle"
    /\ AnsweredWith("create", {409}) # {}

(***************************************************************************)
(* C2. A purge of replace mode that throws is never propagated: no error   *)
(* answer follows it, and once the handler has returned it has answered    *)
(* 200 after attempting every batch, with rowsInserted >= 0.               *)
(***************************************************************************)
FailedPurge == {k \in Ops({"delete"}) : ~calls[k].ok}

C2_PurgeFailureSwallowed ==
    \A k \in FailedPurge :
        /\ AnsweredWith("insert", {400, 404, 500}) = {}
        /\ hpc \in {"loop", "idle"}
        /\ (hpc = "idle" =>
              /\ AnsweredWith("insert", {200}) = {Len(calls)}
              /\ Len(InsertCalls) = Batches(Converted)
              /\ (insertResp # <<>> =>
                    /\ Head(insertResp).status = 200
                    /\ Head(insertResp).rowsInserted >= 0
                    /\ Head(insertResp).mode = "replace"))

C2_Witness ==
    /\ FailedPurge # {}
    /\ insertResp # <<>>
    /\ Head(insertResp).status = 200
    /\ Head(insertResp).rowsInserted > 0
    /\ Len(InsertCalls) > 1

(***************************************************************************)
(* C3. The k-th insert call of a load carries the rows from index          *)
(* (k-1)*1000 up to, but not including, min(k*1000, totalRows): batches    *)
(* are consecutive, in index order, full except possibly the last, each    *)
(* submitted once, whatever the outcome of the batches before it; when the *)
(* handler answers, ceil(totalRows/1000) insert calls were made.           *)
(***************************************************************************)
C3_BatchesInOrderOnce ==
    /\ \A k \in 1..Len(InsertCalls) :
          /\ InsertCalls[k].start = (k - 1) * batchSize
          /\ InsertCalls[k].len = Min(batchSize, Converted - InsertCalls[k].start)
          /\ InsertCalls[k].len >= 1
    /\ Len(InsertCalls) <= Batches(Converted)
    /\ (hpc = "loop" => i = Len(InsertCalls) * batchSize)
    /\ (AnsweredWith("insert", {200}) # {} => Len(InsertCalls) = Batches(Converted))

C3_Witness ==
    /\ AnsweredWith("insert", {200}) # {}
    /\ Len(InsertCalls) = 3
    /\ ~InsertCalls[1].ok
    /\ InsertCalls[2].ok
    /\ InsertCalls[3].len < batchSize

(***************************************************************************)
(* C4. While the loop runs totalInserted is the sum of the sizes of the    *)
(* batches whose insert did not throw, and lies between 0 and rows.length; *)
(* the answer reports that sum as rowsInserted and the number of converted *)
(* rows as totalRows; once a batch was attempted the handler answers 200.  *)
(***************************************************************************)
C4_RowsInsertedCountsSuccesses ==
    /\ (hpc = "loop" =>
          /\ totalInserted = SumOk(InsertCalls)
          /\ rows = Converted
          /\ 0 <= totalInserted /\ totalInserted <= rows)
    /\ (insertResp # <<>> /\ Head(insertResp).status = 200 =>
          /\ Head(insertResp).rowsInserted = SumOk(InsertCalls)
          /\ Head(insertResp).totalRows = Converted
          /\ 0 <= Head(insertResp).rowsInserted
          /\ Head(insertResp).rowsInserted <= Head(insertResp).totalRows)
    /\ (InsertCalls # <<>> => AnsweredWith("insert", {400, 404, 500}) = {})

C4_Witness ==
    /\ insertResp # <<>>
    /\ Head(insertResp).status = 200
    /\ Head(insertResp).rowsInserted > 0
    /\ Head(insertResp).rowsInserted < Head(insertResp).totalRows
    /\ \E k \in 1..Len(InsertCalls) : ~InsertCalls[k].ok

(***************************************************************************)
(* C5. A request whose document converted to at least one row and whose    *)
(* table the warehouse reports missing is answered 404 at once; no purge   *)
(* and no row insert is ever issued against a table that is not there,     *)
(* and a 404 or 409 answer is preceded by no purge and no row insert.      *)
(***************************************************************************)
\* the existence checks of the insert handler: those that follow a conversion
InsertExistsChecks ==
    {k \in Ops({"table.exists"}) : k > 1 /\ calls[k - 1].op = "convert" /\ calls[k].ok}

IsIdentifier(s) ==
    /\ s # <<>>
    /\ IsLetter(s[1]) \/ s[1] = "_"
    /\ \A k \in DOMAIN s : IsLetter(s[k]) \/ IsDigit(s[k]) \/ s[k] = "_"

C8_SanitizeYieldsIdentifier ==
    output # <<>> =>
        /\ Head(output) # <<>>
        /\ ~IsDigit(Head(output)[1])
        /\ IsIdentifier(Head(output)) \/ Head(output) = unnamed_field

(***************************************************************************)
(* C7. Round trip of an INTEGER column: when inferColumnType classifies    *)
(* the column as INTEGER, convertValue turns every value of it that was    *)
(* not skipped into the number its text parses to.                         *)
(***************************************************************************)
NonSkipped == {k \in DOMAIN input : ~IsBlankOrNull(trim(input[k]))}

C7_IntegerColumnRoundTrip ==
    (Len(output) = 2 /\ output[1].type = "INTEGER") =>
        \A k \in NonSkipped :
            /\ output[2][k].kind = "number"
            /\ output[2][k].scale = 0
            /\ IsIntegerText(trim(input[k]))
            /\ output[2][k].num = parseInt(trim(input[k]))

(***************************************************************************)
(* C10. Every value that is not skipped casts exactly one vote, and the    *)
(* boolean words are tested first: a value that is one of true, false, 1,  *)
(* 0, yes, no, y, n (in any case) votes boolean and not integer, so the    *)
(* column true, false, 1 is BOOLEAN.                                       *)
(***************************************************************************)
BooleanLike == {k \in NonSkipped : toLowerCase(trim(input[k])) \in BooleanWords}

C10_BooleanTestedFirst ==
    output # <<>> =>
        /\ LET voting == NonSkipped
               booleans == BooleanLike
           IN  /\ Total(output[1].typeCounts) = Cardinality(voting)
               /\ output[1].typeCounts.boolean = Cardinality(booleans)
               /\ output[1].typeCounts.integer =
                     Cardinality({k \in voting \ booleans : IsIntegerText(trim(input[k]))})
        /\ (input = <<<<"t", "r", "u", "e">>, <<"f", "a", "l", "s", "e">>, <<"1">>>> => output[1].type = "BOOLEAN")

C10_Witness ==
    /\ input = <<<<"t", "r", "u", "e">>, <<"f", "a", "l", "s", "e">>, <<"1">>>>
    /\ output # <<>>
    /\ output[1].type = "BOOLEAN"
    /\ output[1].typeCounts.boolean = 3

(***************************************************************************)
(* C6. parseCSV of a document with a header and at least one data line     *)
(* does not throw and returns, in input order, one converted row for each  *)
(* data line that has as many tokens as the header, and nothing for the    *)
(* others: as many rows as data lines minus mismatched lines.              *)
(***************************************************************************)
DataLines == Tail(LinesOf(input))
HeaderTokens == parseCSVLine(LinesOf(input)[1])
Matches(line) == Len(parseCSVLine(line)) = Len(HeaderTokens)
Matching == SelectSeq(DataLines, Matches)
Mismatched == {k \in DOMAIN DataLines : ~Matches(DataLines[k])}

C6_CsvDropsOnlyMismatchedLines ==
    (Len(output) = 2 /\ Len(LinesOf(input)) >= 2) =>
        /\ ~output[2].threw
        /\ Len(output[2].rows) = Len(DataLines) - Cardinality(Mismatched)
        /\ Len(output[2].rows) = Len(Matching)
        /\ \A j \in DOMAIN Matching :
              LET values == parseCSVLine(Matching[j])
                  row == output[2].rows[j]
              IN  /\ row # <<>>
                  /\ \A k \in DOMAIN row :
                        \E h \in DOMAIN HeaderTokens :
                            /\ row[k].key = cleanFieldName(HeaderTokens[h])
                            /\ row[k].val = CellValue(values[h])

C6_Witness ==
    /\ Len(output) = 2
    /\ Len(DataLines) = 3
    /\ Matches(DataLines[1]) /\ ~Matches(DataLines[2]) /\ Matches(DataLines[3])
    /\ Len(output[2].rows) = 2
    /\ output[2].rows[1] # output[2].rows[2]

(***************************************************************************)
(* C9. A sampled column all of whose values match ^-?\d+$ is inferred as   *)
(* INTEGER; in particular the id column of "id,name\n1,Alice\n2,Bob\n3,".  *)
(***************************************************************************)
SampleRows ==
    [k \in DOMAIN SampleLines(LinesOf(input)) |->
        parseCSVLineDetect(SampleLines(LinesOf(input))[k])]

C9_IntegerColumnIsInteger ==
    (output # <<>> /\ ~output[1].threw) =>
        /\ \A index \in DOMAIN output[1].schema :
              LET col == ColumnValues(SampleRows, index)
              IN  (col # <<>> /\ \A k \in DOMAIN col : IsIntegerText(col[k]))
                      => output[1].schema[index].type = "INTEGER"
        /\ (input = ExampleCsv => output[1].schema[1].type = "INTEGER")

(***************************************************************************)
(* C11. For a column that is not empty, the inferred type is the first of  *)
(* INTEGER, FLOAT, BOOLEAN, TIMESTAMP, DATE whose votes times 10 are at    *)
(* least 7 times the number of non-skipped values, and STRING when none    *)
(* is; the column a, b, 1 is STRING.  (The empty column is STRING.)        *)
(***************************************************************************)
TypeOrder == <<"INTEGER", "FLOAT", "BOOLEAN", "TIMESTAMP", "DATE">>
VotesFor(t) ==
    CASE t = "INTEGER" -> output[1].typeCounts.integer
      [] t = "FLOAT" -> output[1].typeCounts.float
      [] t = "BOOLEAN" -> output[1].typeCounts.boolean
      [] t = "TIMESTAMP" -> output[1].typeCounts.timestamp
      [] t = "DATE" -> output[1].typeCounts.date
\* the positions of TypeOrder whose type has at least 70% of the votes
Clearing ==
    LET total == Cardinality(NonSkipped)
    IN  {p \in DOMAIN TypeOrder : VotesFor(TypeOrder[p]) * 10 >= total * 7}

DetectHeader == parseCSVLineDetect(LinesOf(input)[1])
Sampled == {r \in 2..Len(LinesOf(input)) : r - 1 <= 10}
HasToken(r, h) ==
    LET tokens == parseCSVLineDetect(LinesOf(input)[r])
    IN  h <= Len(tokens) /\ trim(tokens[h]) # <<>>

C12_RequiredIffAllSampledPresent ==
    (output # <<>> /\ ~output[1].threw) =>
        /\ Len(output[1].schema) = Len(DetectHeader)
        /\ \A h \in DOMAIN DetectHeader :
              /\ output[1].schema[h].name = sanitizeFieldName(DetectHeader[h])
              /\ output[1].schema[h].mode \in {"REQUIRED", "NULLABLE"}
              /\ output[1].schema[h].mode = "REQUIRED" <=> \A r \in Sampled : HasToken(r, h)

C12_Witness ==
    /\ output # <<>>
    /\ ~output[1].threw
    /\ Len(LinesOf(input)) = 12
    /\ Len(output[1].schema) = 2
    /\ ~HasToken(12, 2)
    /\ output[1].schema[1].mode = "REQUIRED"
    /\ output[1].schema[2].mode = "REQUIRED"

(***************************************************************************)
(* C13. For every raw name, the chain written out in parseCSV and the      *)
(* chain written out in parseJSON return the string sanitizeFieldName      *)
(* returns: a key of a converted row is the inferred name of its field.    *)
(***************************************************************************)
C13_InlineChainsMatchSanitizer ==
    Len(output) = 3 =>
        /\ output[2] = output[1]
        /\ output[3] = output[1]

C13_Witness ==
    /\ Len(output) = 3
    /\ Len(input) >= 3
    /\ output[3] # input
    /\ output[3] # toLowerCase(input)
    /\ output[3] # unnamed_field
    /\ output[2] = output[3]

(***************************************************************************)
(* C14. The rows the insert handler converts for a load carry, as keys,    *)
(* the field names of the schema that was in the preview when the operator *)
(* started the load, edits included.                                       *)
(***************************************************************************)
C14_RowKeysFollowEditedSchema ==
    \A k \in Ops({"convert"}) :
        calls[k].ok => calls[k].inputs.names = calls[1].inputs.names

(***************************************************************************)
(* C15. insertMode keeps one value from the start of createTable to its    *)
(* end: the mode read at the start, the mode sent in the insert request    *)
(* and the action reported to the parent agree, whenever the answers of    *)
(* pending checkTableExists calls arrive.                                  *)
(***************************************************************************)
C15_ModeFixedDuringLoad ==
    /\ cpc # "idle" => insertMode = calls[1].inputs.mode
    /\ \A k \in Ops({"POST insert"}) : calls[k].inputs.mode = calls[1].inputs.mode
    /\ outcome = "done" => Head(dispatched).action = ActionText(calls[1].inputs.mode)

(***************************************************************************)
(* C16. In a create-mode load the insert request names the dataset and the *)
(* table, and carries the file, that were in effect when the create        *)
(* request was sent.                                                       *)
(***************************************************************************)
C16_InsertUsesInputsOfCreate ==
    \A k \in Ops({"POST insert"}) :
        calls[1].op = "POST create" =>
            /\ calls[k].tbl = calls[1].tbl
            /\ calls[k].inputs.datasetId = calls[1].inputs.datasetId
            /\ calls[k].inputs.content = calls[1].inputs.content

(***************************************************************************)
(* C17. Inference reads a bounded prefix: a CSV document with the header   *)
(* and the first 10 data lines of the request's document, and a JSON array *)
(* with the first 10 elements of the request's array, get the answer the   *)
(* request got, whatever follows the prefix.                               *)
(***************************************************************************)
FirstLines(doc) == SubSeq(LinesOf(doc), 1, Min(11, Len(LinesOf(doc))))
FirstElems(doc) == SubSeq(doc.elems, 1, Min(10, Len(doc.elems)))
SamePrefixCsv == {d \in LongDocuments : FirstLines(d) = FirstLines(input.csv)}
SamePrefixJson ==
    {d \in LongArrays : input.json.top = "array" /\ FirstElems(d) = FirstElems(input.json)}

C17_InferenceReadsPrefixOnly ==
    output # <<>> =>
        /\ input.type = "csv" =>
              \A d \in SamePrefixCsv : DetectPost([input EXCEPT !.csv = d]) = output[1]
        /\ input.type = "json" =>
              \A d \in SamePrefixJson : DetectPost([input EXCEPT !.json = d]) = output[1]

C17_Witness ==
    /\ output # <<>>
    /\ input.type = "csv"
    /\ output[1].status = 200
    /\ Len(output[1].schema) = 2
    /\ Len(LinesOf(input.csv)) = 12
    /\ \E d \in SamePrefixCsv :
          /\ Len(LinesOf(d)) = 12
          /\ Len(parseCSVLineDetect(LinesOf(d)[12]))
                # Len(parseCSVLineDetect(LinesOf(input.csv)[12]))

(***************************************************************************)
(* C18. Inference answers with an error and no schema for a CSV of fewer   *)
(* than two lines and for every JSON document that parses but is neither   *)
(* an object nor an array of objects only.                                 *)
(***************************************************************************)
AllObjects(doc) ==
    \/ doc.top = "object"
    \/ doc.top = "array" /\ \A k \in DOMAIN doc.elems : IsObject(doc.elems[k])

C18_MalformedInputIsAnError ==
    output # <<>> =>
        /\ (input.type = "csv" /\ Len(LinesOf(input.csv)) < 2)
              => (output[1].status # 200 /\ output[1].schema = <<>>)
        /\ (input.type = "json" /\ input.json.top # "invalid" /\ ~AllObjects(input.json))
              => (output[1].status # 200 /\ output[1].schema = <<>>)

(***************************************************************************)
(* C19. parseJSON is all or nothing: an array with an element that is not  *)
(* an object makes the conversion throw, no row is returned, and the       *)
(* handler answers 500 without a purge or an insert call; an object or an  *)
(* array of objects yields one row per element, in order, keyed by the     *)
(* cleaned keys of that element.                                           *)
(***************************************************************************)
HasNonObject == input.top = "array" /\ ~AllObjects(input)
CleanedKeys(record) == {cleanKey(record.members[k].key) : k \in DOMAIN record.members}

C19_JsonConversionAllOrNothing ==
    /\ HasNonObject =>
          /\ Ops({"delete", "insert"}) = {}
          /\ AnsweredWith("insert", {200, 400, 404}) = {}
          /\ hpc = "idle"
          /\ \A k \in Ops({"convert"}) : ~calls[k].ok
          /\ insertResp # <<>> => Head(insertResp).status = 500
          /\ Len(output) = 2 => (output[2].threw /\ output[2].rows = <<>>)
    /\ (Len(output) = 2 /\ AllObjects(input)) =>
          /\ ~output[2].threw
          /\ Len(output[2].rows) = Len(input.elems)
          /\ \A k \in DOMAIN input.elems :
                {output[2].rows[k][j].key : j \in DOMAIN output[2].rows[k]}
                    = CleanedKeys(input.elems[k])
          /\ \A k \in Ops({"convert"}) : calls[k].ok /\ calls[k].len = Len(input.elems)

C19_Witness ==
    /\ Len(output) = 2
    /\ Len(input.elems) = 3
    /\ IsObject(input.elems[1]) /\ IsObject(input.elems[2]) /\ ~IsObject(input.elems[3])
    /\ output[2].threw
    /\ insertResp # <<>>
    /\ Head(insertResp).status = 500
    /\ datasetExists /\ "t1" \in tables

(***************************************************************************)
(* C20. convertValue maps a raw value by the first rule that matches its   *)
(* trimmed text: blank or null (any case) gives null; true, yes, y, 1 (any *)
(* case) give true; false, no, n, 0 give false; text matching ^-?\d+$      *)
(* gives that integer; text matching ^-?\d+\.\d+$ gives that decimal;      *)
(* anything else gives the trimmed text.                                   *)
(***************************************************************************)
C20_ConvertValueRules ==
    Len(output) = 2 =>
        \A k \in DOMAIN input :
            LET t == trim(input[k])
                lowered == toLowerCase(t)
                r == output[2][k]
            IN  IF t = <<>> \/ lowered = <<"n", "u", "l", "l">>
                THEN r.kind = "null"
                ELSE IF lowered \in {<<"t", "r", "u", "e">>, <<"y", "e", "s">>, <<"y">>, <<"1">>}
                THEN r.kind = "boolean" /\ r.num = 1
                ELSE IF lowered \in {<<"f", "a", "l", "s", "e">>, <<"n", "o">>, <<"n">>, <<"0">>}
                THEN r.kind = "boolean" /\ r.num = 0
                ELSE IF IsIntegerText(t)
                THEN r.kind = "number" /\ r.scale = 0 /\ r.num = parseInt(t)
                ELSE IF IsFloatText(t)
                THEN r.kind = "number" /\ r.scale > 0 /\ r = parseFloat(t)
                ELSE r.kind = "string" /\ r.str = t

C20_Witness ==
    /\ Len(output) = 2
    /\ {output[2][k].kind : k \in DOMAIN input} = {"null", "boolean", "number", "string"}
    /\ \E k \in DOMAIN input : output[2][k].kind = "number" /\ output[2][k].scale = 1
    /\ \E k \in DOMAIN input : output[2][k].kind = "boolean" /\ input[k] = <<"N", "o">>

(***************************************************************************)
(* C21. parseCSVLine ends a field only at a comma met while the in-quotes  *)
(* flag is false: it returns 1 + (number of such commas) fields, each      *)
(* trimmed; a doubled quote inside a quoted field gives one quote          *)
(* character and no other quote reaches a field; a,"b,c",d gives           *)
(* [a, b,c, d] and a,"b""c",d gives [a, b"c, d]; the copy of schema         *)
(* detection returns the same fields as the copy of the insert route.      *)
(***************************************************************************)
\* the positions the scan stops at, each with the flag it finds there
RECURSIVE Visited(_, _, _)
Visited(line, at, inQuotes) ==
    IF at > Len(line) THEN {}
    ELSE {<<at, inQuotes>>} \cup
         (IF line[at] # "\"" THEN Visited(line, at + 1, inQuotes)
          ELSE IF inQuotes /\ at < Len(line) /\ line[at + 1] = "\""
               THEN Visited(line, at + 2, inQuotes)
               ELSE Visited(line, at + 1, ~inQuotes))
OutsideCommas(visited) == {v \in visited : input[v[1]] = "," /\ ~v[2]}
Escapes(visited) ==
    {v \in visited : /\ input[v[1]] = "\"" /\ v[2]
                     /\ v[1] < Len(input) /\ input[v[1] + 1] = "\""}
QuotesIn(fields) ==
    {<<f, k>> \in (DOMAIN fields) \X (1..Len(input)) :
        k <= Len(fields[f]) /\ fields[f][k] = "\""}

C21_SplitsAtUnquotedCommas ==
    output # <<>> =>
        LET visited == Visited(input, 1, FALSE)
            fields == output[1]
        IN  /\ Len(fields) = 1 + Cardinality(OutsideCommas(visited))
            /\ \A f \in DOMAIN fields : trim(fields[f]) = fields[f]
            /\ Cardinality(QuotesIn(fields)) = Cardinality(Escapes(visited))
            /\ (input = QuotedComma => fields = <<<<"a">>, <<"b", ",", "c">>, <<"d">>>>)
            /\ (input = DoubledQuote => fields = <<<<"a">>, <<"b", "\"", "c">>, <<"d">>>>)
            /\ output[2] = fields

C21_Witness ==
    /\ input = QuotedComma
    /\ output = <<<<<<"a">>, <<"b", ",", "c">>, <<"d">>>>, <<<<"a">>, <<"b", ",", "c">>, <<"d">>>>>>

(***************************************************************************)
(* C22. sanitizeFieldName is idempotent: sanitizing a sanitized name gives *)
(* the same name again.                                                    *)
(***************************************************************************)
C22_SanitizeIdempotent ==
    Len(output) = 4 => output[4] = output[1]

C22_Witness ==
    /\ input = <<"B", "-", "_", "1">>
    /\ Len(output) = 4
    /\ output[1] = <<"b", "_", "1">>
    /\ output[4] = <<"b", "_", "1">>

(***************************************************************************)
(* C23. When JSON inference returns, the schema has one field per distinct *)
(* key of the sampled records (the first 10 elements of an array, or the   *)
(* single object), in the order the keys are first seen, keys absent from  *)
(* the first record included; the field is named by the sanitized key and  *)
(* is REQUIRED exactly when every sampled record has a value other than    *)
(* null for the key, NULLABLE otherwise.                                   *)
(***************************************************************************)
SampledRecs ==
    IF input.top = "array" THEN {r \in DOMAIN input.elems : r <= 10} ELSE DOMAIN input.elems
KeyPositions ==
    {p \in SampledRecs \X (1..2) :
        IsObject(input.elems[p[1]]) /\ p[2] <= Len(input.elems[p[1]].members)}
KeyAt(p) == input.elems[p[1]].members[p[2]].key
DistinctKeys == {KeyAt(p) : p \in KeyPositions}
Earlier(p, q) == p[1] < q[1] \/ (p[1] = q[1] /\ p[2] < q[2])
FirstSeen(key) ==
    CHOOSE p \in KeyPositions :
        KeyAt(p) = key /\ \A q \in KeyPositions : KeyAt(q) = key => ~Earlier(q, p)
Rank(key) ==
    1 + Cardinality({other \in DistinctKeys : Earlier(FirstSeen(other), FirstSeen(key))})
HasValue(r, key) ==
    \E k \in DOMAIN input.elems[r].members :
        /\ input.elems[r].members[k].key = key
        /\ input.elems[r].members[k].val.kind # "null"

C23_JsonFieldPerKeyInFirstSeenOrder ==
    (output # <<>> /\ ~output[1].threw) =>
        LET schema == output[1].schema
        IN  /\ Len(schema) = Cardinality(DistinctKeys)
            /\ \A key \in DistinctKeys :
                  LET field == schema[Rank(key)]
                  IN  /\ field.name = sanitizeFieldName(key)
                      /\ field.mode \in {"REQUIRED", "NULLABLE"}
                      /\ field.mode = "REQUIRED" <=> \A r \in SampledRecs : HasValue(r, key)

C23_Witness ==
    /\ Len(input.elems) = 2
    /\ Keys(input.elems[1]) = <<<<"i", "d">>>>
    /\ Keys(input.elems[2]) = <<<<"i", "d">>, <<"N", "a", "m", "e">>>>
    /\ output # <<>>
    /\ ~output[1].threw
    /\ [f \in DOMAIN output[1].schema |-> output[1].schema[f].name] = <<<<"i", "d">>, <<"n", "a", "m", "e">>>>
    /\ [f \in DOMAIN output[1].schema |-> output[1].schema[f].mode] = <<"REQUIRED", "NULLABLE">>

(***************************************************************************)
(* C24. The order of a load.  createTable posts to /api/tables/create      *)
(* exactly when the mode it reads at the start is create.  In such a load  *)
(* a table is created only after the dataset was looked up and, when it    *)
(* was absent, created without an error; and the insert request is sent    *)
(* only after the table was created without an error.  In a load started   *)
(* in append or replace mode there is no request to /api/tables/create and *)
(* no call that looks up or creates a dataset or creates a table.          *)
(***************************************************************************)
LoadMode == calls[1].inputs.mode
DatasetEnsuredBefore(k) ==
    /\ \E j \in 1..(k - 1) : calls[j].op = "dataset.exists" /\ calls[j].ok
    /\ \A j \in DOMAIN calls : calls[j].op = "dataset.create" => (j < k /\ calls[j].ok)
    /\ datasetExists
TableCreatedBefore(k) ==
    \E j \in 1..(k - 1) :
        calls[j].op = "table.create" /\ calls[j].ok /\ calls[j].tbl = calls[1].tbl

C25_TypeHasAVote ==
    output # <<>> =>
        /\ output[1].type # "STRING" => VotesFor(output[1].type) > 0
        /\ (Len(input) > 0 /\ NonSkipped = {}) => output[1].type = "STRING"

(***************************************************************************)
(* C26. The schema inference returns for a CSV document has pairwise       *)
(* distinct field names, headers that differ only in case, punctuation or  *)
(* white space included, and every row conversion returns has as many keys *)
(* as the header line has tokens.                                          *)
(***************************************************************************)
C26_DistinctNamesFullRows ==
    /\ (output # <<>> /\ ~output[1].threw) =>
          \A f, g \in DOMAIN output[1].schema :
              f # g => output[1].schema[f].name # output[1].schema[g].name
    /\ (Len(output) = 2 /\ ~output[2].threw) =>
          \A r \in DOMAIN output[2].rows : Len(output[2].rows[r]) = Len(HeaderTokens)

(***************************************************************************)
(* C27. When inference marks a field of a CSV document REQUIRED, the row   *)
(* conversion makes of each sampled data line (one of the first 10) has a  *)
(* value other than null under the name of that field.                     *)
(***************************************************************************)
\* the rows of the sampled lines: conversion keeps the order of the lines
\* and leaves out those of the wrong length
SampledRowCount ==
    Cardinality({l \in 2..Len(LinesOf(input)) : l - 1 <= 10 /\ Matches(LinesOf(input)[l])})
HasNonNull(row, name) == \E k \in DOMAIN row : row[k].key = name /\ row[k].val.kind # "null"

C27_RequiredFieldsAreNeverNull ==
    (Len(output) = 2 /\ ~output[1].threw /\ ~output[2].threw) =>
        \A f \in DOMAIN output[1].schema :
            output[1].schema[f].mode = "REQUIRED" =>
                \A r \in 1..SampledRowCount : HasNonNull(output[2].rows[r], output[1].schema[f].name)

(***************************************************************************)
(* C28. The insert handler issues the DELETE of replace mode only for a    *)
(* request in replace mode that names a dataset and a table, after the     *)
(* document was converted to at least one row and the table was found to   *)
(* exist; a request answered 400, 404 or 500 has issued no delete and no   *)
(* insert, so nothing it did changes the rows of the table.                *)
(***************************************************************************)
RequestMode == IF hpc = "idle" THEN Head(insertResp).mode ELSE hreq.mode
ConvertedThenFound(k) ==
    \E c, e \in 1..(k - 1) :
        /\ c < e
        /\ calls[c].op = "convert" /\ calls[c].ok /\ calls[c].len >= 1
        /\ calls[e].op = "table.exists" /\ calls[e].ok /\ calls[e].tbl = calls[k].tbl

C28_DeleteOnlyAfterChecks ==
    /\ \A k \in DOMAIN calls :
          calls[k].op = "delete" =>
              /\ RequestMode = "replace"
              /\ calls[k].tbl # ""
              /\ calls[k].tbl \in tables /\ datasetExists
              /\ hpc # "idle" => (hreq.datasetId # "" /\ hreq.tableId = calls[k].tbl)
              /\ ConvertedThenFound(k)
    /\ \A a \in DOMAIN calls :
          (calls[a].op = "answer insert" /\ calls[a].start \in {400, 404, 500}) =>
              \A k \in DOMAIN calls : calls[k].op \notin {"delete", "insert"}

C28_Witness ==
    /\ \E k \in DOMAIN calls : calls[k].op = "delete" /\ calls[k].ok
    /\ \E a \in DOMAIN calls : calls[a].op = "answer insert" /\ calls[a].start = 200
    /\ Head(insertResp).mode = "replace"

(***************************************************************************)
(* C29. When a load started in create mode ends in an error reported by    *)
(* createTable, the warehouse holds no table that this load created.       *)
(***************************************************************************)
C29_FailedCreateLeavesNoTable ==
    (calls # <<>> /\ calls[1].op = "POST create" /\ outcome = "error") =>
        ~\E k \in DOMAIN calls :
            /\ calls[k].op = "table.create" /\ calls[k].ok
            /\ calls[k].tbl \in tables

(***************************************************************************)
(* C30. When inference and conversion both return for a JSON document,     *)
(* every key of every converted row is the name of a field of the inferred *)
(* schema, arrays longer than the sample included.                         *)
(***************************************************************************)
SchemaNames == {output[1].schema[f].name : f \in DOMAIN output[1].schema}

C30_RowKeysAreSchemaFields ==
    (Len(output) = 2 /\ ~output[1].threw /\ ~output[2].threw) =>
        \A r \in DOMAIN output[2].rows :
            \A k \in DOMAIN output[2].rows[r] : output[2].rows[r][k].key \in SchemaNames

====
